---- MODULE Spec2Model ----
(***************************************************************************)
(* Model of the dialogue persistence pipeline of backward_bot:             *)
(*   services/encryption_service.py      (EncryptionService)               *)
(*   services/claude_service.py          (ClaudeService)                   *)
(*   services/data_retention_service.py  (DataRetentionService)            *)
(*   database/models.py                  (tables)                          *)
(*                                                                         *)
(* Time.  The wall clock is the integer `now`.  The thresholds of the      *)
(* source (30, 90, 365 days) are kept as they are, one unit per day.       *)
(* Every datetime.utcnow() read returns the clock and moves it on by one   *)
(* unit, so that two reads never return the same instant (the reads are    *)
(* separated by database round trips); larger spans pass through Tick.     *)
(*                                                                         *)
(* Cryptography.  The master secret is fixed, so a derived key is          *)
(* identified by the salt it was derived from.  os.urandom(16) is a fresh  *)
(* salt: a number no stored salt or token carries.  A Fernet token is the  *)
(* record [enc |-> TRUE, salt, text, bad]; Fernet.decrypt succeeds exactly *)
(* when the token is intact and the key's salt is the token's salt.        *)
(* A dialogue row is identified by its timestamp (no two rows share one).  *)
(*                                                                         *)
(* Storage errors.  A failing statement or commit raises and leaves no     *)
(* trace in the database; what the handler does next is the code of its    *)
(* except branch.  A run injects at most MaxFaults faults (storage errors  *)
(* and damaged tokens).                                                    *)
(***************************************************************************)
EXTENDS Integers, Sequences, FiniteSets, TLC

\* ------------------------------------------------------------------ bounds
MaxUsers == 2
MaxExchanges == 2
MaxTicks == 2
MaxCycles == 1
MaxFaults == 1
MaxRequests == 1
SmallContextLimit == 3
MaxScheduled == 370
MaxDeliveries == 2
SmallTokenBudget == 700

\* ------------------------------------------------------- program constants
MAX_INPUT_CHARS == 2500
DefaultMaxContextMessages == 30
ContextWindowDays == 30
MessageRetentionDays == 90
InactiveUserAnonymizationDays == 365
LogRetentionDays == 365
ContextRetentionDays == 90
MAX_OUTPUT_TOKENS == 700
\* the retention cycle is fired once a day
ScheduleInterval == 1

NULL == 0
Users == 1..MaxUsers

\* texts a user can send and the LLM can answer; LongText stands for any
\* text of more than MAX_INPUT_CHARS characters
LongText == "LongText"
UserTexts == {"Hello", LongText}
ReplyTexts == {"Hi there"}
\* a reply that uses up the max_tokens of the LLM request
LongReply == "LongReply"

TextLen(t) == IF t = LongText THEN MAX_INPUT_CHARS + 1 ELSE 8

\* steps by which the clock moves between operations
TickSteps == {27, 86, 365}

\* the tables of the credit and payment ledger
LedgerTables == {"user_credits", "user_subscriptions", "payment_history"}

\* PRICING_PLANS: the credits ('messages') of each plan
PRICING_PLANS == [trial |-> [messages |-> 20],
                  basic |-> [messages |-> 100],
                  standard |-> [messages |-> 300]]

VARIABLES
    now,              \* wall clock
    enablePseudo,     \* ANONYMIZATION_SETTINGS['enable_pseudonymization']
    encryptSetting,   \* DIALOGUE_SETTINGS['encrypt_messages']
    masterKey,        \* ENCRYPTION_MASTER_KEY is set
    maxContext,       \* DIALOGUE_SETTINGS['max_context_messages']
    pseudonyms,       \* table user_pseudonyms
    nextUuid,         \* uuid.uuid4() values handed out so far
    keys,             \* table user_encryption_keys
    rows,             \* tables dialogue_metadata joined with dialogue_content
    actions,          \* table user_actions
    retLogs,          \* table data_retention_logs
    pc,               \* position of get_consultation: "idle" or "llm"
    gc,               \* locals of the get_consultation in flight
    claudeMessages,   \* the messages argument of the last LLM call
    issued,           \* history: values ensure_pseudonym returned per user
    formerUser,       \* history: pseudonym id -> user it was unlinked from
    lastOp,           \* history: what the last operation did
    nExchanges, nCycles, nFaults, nTicks, nRequests,
    orphans,          \* rows of dialogue_content that no metadata row refers to
    feedback,         \* table feedback
    ledger            \* tables user_credits, user_subscriptions, payment_history

vars == <<now, enablePseudo, encryptSetting, masterKey, maxContext,
          pseudonyms, nextUuid, keys, rows, actions,
          retLogs, pc, gc, claudeMessages, issued, formerUser,
          lastOp, nExchanges, nCycles, nFaults, nTicks, nRequests,
          orphans, feedback, ledger>>

\* ------------------------------------------------------------ identifiers
\* str(user_id): a string of digits, never equal to a uuid4 string
Str(u) == [kind |-> "uid", n |-> u]
\* str(uuid.uuid4())
Uuid(n) == [kind |-> "uuid", n |-> n]

\* ---------------------------------------------------------------- content
Plain(t) == [enc |-> FALSE, salt |-> 0, text |-> t, bad |-> FALSE]
\* Fernet(key).encrypt(text), key derived from salt s
FernetEncrypt(s, t) == [enc |-> TRUE, salt |-> s, text |-> t, bad |-> FALSE]
\* Fernet(key).decrypt accepts the token
FernetAccepts(s, c) == c.enc /\ ~c.bad /\ c.salt = s

\* ------------------------------------------------------------ key material
\* kdf.derive(master key) with salt s: the 32 bytes of the symmetric key
Key(s) == [kind |-> "key", salt |-> s]
\* base64.urlsafe_b64encode(x): an encoding anyone can reverse
urlsafe_b64encode(x) == [kind |-> "b64", of |-> x]
\* Fernet(...)._encryption_key: the second half of the key
FernetEncryptionKey(k) == [kind |-> "part", of |-> k]
\* a byte string that is no key material (b'placeholder')
Bytes(x) == [kind |-> "bytes", of |-> x]

\* EncryptionService.__init__: self.encrypt_messages
EncryptMessages == encryptSetting /\ masterKey

\* the database and session a handler works on, threaded through its calls
\*   pending:  objects added to the session and not yet committed
\*   inactive: a commit of the session has raised and rollback() has not been
\*             called since; every statement raises meanwhile
DB == [pseudonyms |-> pseudonyms, nextUuid |-> nextUuid, keys |-> keys,
       rows |-> rows, actions |-> actions, retLogs |-> retLogs, now |-> now,
       orphans |-> orphans, feedback |-> feedback, ledger |-> ledger,
       pending |-> {}, inactive |-> FALSE]

\* session.commit()
Commit(db) == [db EXCEPT !.rows = db.rows \cup db.pending, !.pending = {}]
\* session.rollback()
Rollback(db) == [db EXCEPT !.pending = {}, !.inactive = FALSE]

\* query(UserPseudonym).filter_by(user_id=u).first()
PseudonymsOfUser(db, u) == {p \in db.pseudonyms : p.user_id = u}
FirstPseudonymOfUser(db, u) ==
    CHOOSE p \in PseudonymsOfUser(db, u) :
        \A q \in PseudonymsOfUser(db, u) : p.id <= q.id

\* mutant: the pseudonym id is derived from the user id instead of drawn anew
ensure_pseudonym_derived(db, u, err) ==
    IF ~enablePseudo THEN [db |-> db, ret |-> Str(u)]
    ELSE IF err THEN [db |-> db, ret |-> Str(u)]
    ELSE IF PseudonymsOfUser(db, u) = {}
         THEN [db |-> [db EXCEPT
                        !.pseudonyms = @ \cup {[id |-> db.nextUuid,
                                                user_id |-> u,
                                                pseudonym_id |-> Uuid(u)]},
                        !.nextUuid = @ + 1],
               ret |-> Uuid(u)]
         ELSE [db |-> db, ret |-> FirstPseudonymOfUser(db, u).pseudonym_id]

\* EncryptionService.ensure_pseudonym; err: the lookup or the commit raises
ensure_pseudonym(db, u, err) ==
    IF ~enablePseudo THEN [db |-> db, ret |-> Str(u)]
    ELSE IF err THEN [db |-> db, ret |-> Str(u)]
    ELSE IF PseudonymsOfUser(db, u) = {}
         THEN [db |-> [db EXCEPT
                        !.pseudonyms = @ \cup {[id |-> db.nextUuid,
                                                user_id |-> u,
                                                pseudonym_id |-> Uuid(db.nextUuid)]},
                        !.nextUuid = @ + 1],
               ret |-> Uuid(db.nextUuid)]
         ELSE [db |-> db, ret |-> FirstPseudonymOfUser(db, u).pseudonym_id]

\* ------------------------------------------------------------ encryption
SetMax(S) == IF S = {} THEN 0 ELSE CHOOSE x \in S : \A y \in S : y <= x

\* os.urandom(16): a salt that no key record and no stored token carries
urandom(db) ==
    1 + SetMax({k.key_salt : k \in db.keys}
               \cup {r.content.salt : r \in db.rows \cup db.pending})

\* EncryptionService._derive_encryption_key; err: a query or the commit of
\* the new key record raises, and the backup key is derived from a new salt.
\* Returns the salt that identifies the derived key.
_derive_encryption_key(db, pseudonym_id, err) ==
    LET found == {p \in db.pseudonyms : p.pseudonym_id = pseudonym_id}
        user_id == IF found = {} THEN NULL
                   ELSE (CHOOSE p \in found : TRUE).user_id
        user_key == {k \in db.keys : k.user_id = user_id}
    IN  IF err THEN [db |-> db, salt |-> urandom(db)]
        ELSE IF user_id = NULL THEN [db |-> db, salt |-> urandom(db)]
        ELSE IF user_key # {}
             THEN [db |-> db, salt |-> (CHOOSE k \in user_key : TRUE).key_salt]
             ELSE [db |-> Commit([db EXCEPT !.keys = @ \cup
                                    {[user_id |-> user_id,
                                      key_hash |->
                                          urlsafe_b64encode(Key(urandom(db))),
                                      key_salt |-> urandom(db)]}]),
                   salt |-> urandom(db)]

\* EncryptionService.encrypt_message; err is "none", "derive" (key derivation
\* falls back to the backup key) or "commit" (the commit of the row raises).
\* Besides returning the token it stores a row of its own, with role 'user'.
encrypt_message(db, message, pseudonym_id, err) ==
    IF ~EncryptMessages THEN [db |-> db, ret |-> Plain(message)]
    ELSE
    LET k == _derive_encryption_key(db, pseudonym_id, err = "derive")
        encrypted_message == FernetEncrypt(k.salt, message)
        metadata == [pseudonym_id |-> pseudonym_id,
                     role |-> "user",
                     content |-> encrypted_message,
                     message_hash |-> message,
                     iv |-> FernetEncryptionKey(Key(k.salt)),
                     timestamp |-> k.db.now]
        added == [k.db EXCEPT !.pending = @ \cup {metadata}, !.now = @ + 1]
    IN  IF err = "commit"
        THEN [db |-> Rollback(added), ret |-> Plain(message)]
        ELSE [db |-> Commit(added), ret |-> encrypted_message]

\* EncryptionService.decrypt_message; err: key derivation falls back to the
\* backup key.  When Fernet rejects the token the except branch returns the
\* argument as it came.
decrypt_message(db, encrypted_message, pseudonym_id, err) ==
    IF ~EncryptMessages THEN [db |-> db, ret |-> encrypted_message]
    ELSE
    LET k == _derive_encryption_key(db, pseudonym_id, err)
    IN  IF FernetAccepts(k.salt, encrypted_message)
        THEN [db |-> k.db, ret |-> Plain(encrypted_message.text)]
        ELSE [db |-> k.db, ret |-> encrypted_message]

\* ---------------------------------------------------------- context window
RECURSIVE NewestFirst(_)
\* order_by(DialogueMetadata.timestamp.desc())
NewestFirst(S) ==
    IF S = {} THEN <<>>
    ELSE LET m == CHOOSE r \in S : \A q \in S : q.timestamp <= r.timestamp
         IN  <<m>> \o NewestFirst(S \ {m})

\* .limit(n)
Limit(seq, n) == SubSeq(seq, 1, IF n < Len(seq) THEN n ELSE Len(seq))

\* mutant: the reversal is forgotten
ReverseForgotten(seq) == seq

\* list.reverse()
Reverse(seq) == [i \in 1..Len(seq) |-> seq[Len(seq) + 1 - i]]

\* mutant: the filter forgets the lower end of the period
MessagesQueryNoStart(db, pseudonym_id, start_date, end_date) ==
    {r \in db.rows : r.pseudonym_id = pseudonym_id /\ r.timestamp <= end_date}

\* the filter of the query: pseudonym and timestamp BETWEEN start AND end
MessagesQuery(db, pseudonym_id, start_date, end_date) ==
    {r \in db.rows : /\ r.pseudonym_id = pseudonym_id
                     /\ start_date <= r.timestamp
                     /\ r.timestamp <= end_date}

RECURSIVE ProcessResults(_, _, _)
\* the loop over the results: decode, decrypt when encryption is on, append
ProcessResults(db, results, pseudonym_id) ==
    IF results = <<>> THEN [db |-> db, ret |-> <<>>]
    ELSE LET metadata == Head(results)
             d == IF EncryptMessages
                  THEN decrypt_message(db, metadata.content, pseudonym_id, FALSE)
                  ELSE [db |-> db, ret |-> metadata.content]
             rest == ProcessResults(d.db, Tail(results), pseudonym_id)
         IN  [db |-> rest.db,
              ret |-> <<[role |-> metadata.role,
                         content |-> d.ret,
                         timestamp |-> metadata.timestamp,
                         message_hash |-> metadata.message_hash]>> \o rest.ret]

\* EncryptionService.get_messages_by_pseudonym with explicit dates;
\* err: the query raises and the outer except returns []
get_messages_between(db, pseudonym_id, start_date, end_date, limit, err) ==
    IF err THEN [db |-> db, ret |-> <<>>]
    ELSE ProcessResults(
            db,
            Limit(NewestFirst(MessagesQuery(db, pseudonym_id, start_date, end_date)),
                  limit),
            pseudonym_id)

\* EncryptionService.get_messages_by_pseudonym with the default dates:
\* the last 30 days up to now
get_messages_by_pseudonym(db, pseudonym_id, limit, err) ==
    get_messages_between(db, pseudonym_id, db.now - ContextWindowDays, db.now,
                         limit, err)

\* -------------------------------------------------------------- ClaudeService
\* ClaudeService._log_action; err: the commit raises and is rolled back.
\* No query of the model reads the column action_type, so a row of
\* user_actions is its user_id and created_at.
_log_action(db, user_id, action_type, err) ==
    LET added == [db EXCEPT !.now = @ + 1]
    IN  IF err THEN Rollback(added)
        ELSE Commit([added EXCEPT !.actions = @ \cup
                        {[user_id |-> user_id, created_at |-> db.now]}])

\* ClaudeService._save_dialogue_messages; err is "none", "enc_user" or
\* "enc_bot" (the commit inside that encrypt_message raises), "enc_both" (the
\* storage takes the inserts of the flushes but refuses the commits of both
\* encrypt_message calls, as sqlite does while another connection reads, and
\* accepts the final commit) or "commit" (the final commit raises)
_save_dialogue_messages(db, pseudonym_id, user_message, bot_response, err) ==
    LET e1 == IF encryptSetting
              THEN encrypt_message(db, user_message, pseudonym_id,
                                   IF err \in {"enc_user", "enc_both"}
                                   THEN "commit" ELSE "none")
              ELSE [db |-> db, ret |-> Plain(user_message)]
        user_metadata == [pseudonym_id |-> pseudonym_id,
                          role |-> "user",
                          content |-> e1.ret,
                          message_hash |-> "hash_placeholder",
                          iv |-> Bytes("placeholder"),
                          timestamp |-> e1.db.now]
        db1 == [e1.db EXCEPT !.pending = @ \cup {user_metadata}, !.now = @ + 1]
        e2 == IF encryptSetting
              THEN encrypt_message(db1, bot_response, pseudonym_id,
                                   IF err \in {"enc_bot", "enc_both"}
                                   THEN "commit" ELSE "none")
              ELSE [db |-> db1, ret |-> Plain(bot_response)]
        bot_metadata == [pseudonym_id |-> pseudonym_id,
                         role |-> "assistant",
                         content |-> e2.ret,
                         message_hash |-> "hash_placeholder",
                         iv |-> Bytes("placeholder"),
                         timestamp |-> e2.db.now]
        db2 == [e2.db EXCEPT !.pending = @ \cup {bot_metadata}, !.now = @ + 1]
    IN  IF err = "commit" THEN Rollback(db2) ELSE Commit(db2)

\* EncryptionService.delete_messages with the filters pseudonym_id and
\* before_date; err: the commit raises and the deletions are rolled back
delete_messages(db, pseudonym_id, before_date, err) ==
    LET found == {r \in db.rows : /\ r.pseudonym_id = pseudonym_id
                                  /\ r.timestamp < before_date}
    IN  IF err THEN [db |-> Rollback(db), ret |-> 0]
        ELSE [db |-> Commit([db EXCEPT !.rows = @ \ found]),
              ret |-> Cardinality(found)]

\* ------------------------------------------------------ DataRetentionService
\* the join of UserPseudonym with UserAction on user_id, grouped by pseudonym,
\* HAVING max(created_at) < threshold
InactiveUsers(db, threshold) ==
    {p \in db.pseudonyms :
        LET acts == {a \in db.actions : a.user_id = p.user_id}
        IN  /\ p.user_id # NULL
            /\ acts # {}
            /\ SetMax({a.created_at : a \in acts}) < threshold}

\* The except branches of the four steps below log and return 0 without
\* session.rollback().  When the statement that raised was a commit, the
\* session is left with a transaction that waits for a rollback and every
\* later statement on it raises until rollback() is called; when it was a
\* query, the session stays usable.  db.inactive is that condition.
\* err is "none", "query" (the query of the step raises) or "commit" (its
\* commit raises; a step that finds nothing does not commit).
\*
\* DataRetentionService._anonymize_inactive_users
_anonymize_inactive_users(db, current_time, err) ==
    LET inactive == InactiveUsers(db, current_time - InactiveUserAnonymizationDays)
    IN  IF err = "query" \/ db.inactive THEN [db |-> db, ret |-> 0]
        ELSE IF inactive = {} THEN [db |-> db, ret |-> 0]
        ELSE IF err = "commit"
             THEN [db |-> [db EXCEPT !.inactive = TRUE], ret |-> 0]
        ELSE [db |-> Commit([db EXCEPT !.pseudonyms =
                  (@ \ inactive) \cup {[p EXCEPT !.user_id = NULL] : p \in inactive}]),
              ret |-> Cardinality(inactive)]

\* mutant: the comparison with the cutoff is <= instead of <
_delete_old_messages_inclusive(db, current_time, err) ==
    LET old_messages == {r \in db.rows :
                            r.timestamp <= current_time - MessageRetentionDays}
    IN  IF err = "query" \/ db.inactive THEN [db |-> db, ret |-> 0]
        ELSE IF old_messages = {} THEN [db |-> db, ret |-> 0]
        ELSE IF err = "commit"
             THEN [db |-> [db EXCEPT !.inactive = TRUE], ret |-> 0]
        ELSE [db |-> Commit([db EXCEPT !.rows = @ \ old_messages]),
              ret |-> Cardinality(old_messages)]

\* DataRetentionService._delete_old_messages
_delete_old_messages(db, current_time, err) ==
    LET old_messages == {r \in db.rows :
                            r.timestamp < current_time - MessageRetentionDays}
    IN  IF err = "query" \/ db.inactive THEN [db |-> db, ret |-> 0]
        ELSE IF old_messages = {} THEN [db |-> db, ret |-> 0]
        ELSE IF err = "commit"
             THEN [db |-> [db EXCEPT !.inactive = TRUE], ret |-> 0]
        ELSE [db |-> Commit([db EXCEPT !.rows = @ \ old_messages]),
              ret |-> Cardinality(old_messages)]

\* DataRetentionService._delete_old_actions (its threshold is
\* message_retention_days)
_delete_old_actions(db, current_time, err) ==
    LET old == {a \in db.actions :
                   a.created_at < current_time - MessageRetentionDays}
    IN  IF err = "query" \/ db.inactive THEN [db |-> db, ret |-> 0]
        ELSE IF old = {} THEN [db |-> db, ret |-> 0]
        ELSE IF err = "commit"
             THEN [db |-> [db EXCEPT !.inactive = TRUE], ret |-> 0]
        ELSE [db |-> Commit([db EXCEPT !.actions = @ \ old]),
              ret |-> Cardinality(old)]

\* DataRetentionService._delete_old_logs
_delete_old_logs(db, current_time, err) ==
    LET old == {l \in db.retLogs :
                   l.operation_date < current_time - LogRetentionDays}
    IN  IF err = "query" \/ db.inactive THEN [db |-> db, ret |-> 0]
        ELSE IF old = {} THEN [db |-> db, ret |-> 0]
        ELSE IF err = "commit"
             THEN [db |-> [db EXCEPT !.inactive = TRUE], ret |-> 0]
        ELSE [db |-> Commit([db EXCEPT !.retLogs = @ \ old]),
              ret |-> Cardinality(old)]

\* DataRetentionLog.pseudonym_id is nullable=False: the insert of a row
\* without pseudonym_id violates the constraint and the commit raises
DataRetentionLogAccepts(entry) == entry.pseudonym_id # Str(NULL)

\* the error injected into one step of a cycle
StepError(step, err, mode) == IF err = step THEN mode ELSE "none"

\* DataRetentionService.execute_retention_policy; err names the step whose
\* database access raises ("none" when none does) and mode says whether its
\* query or its commit raises.  raised: the message deletion went through
\* its except branch.
execute_retention_policy(db, err, mode) ==
    LET current == db.now
        db0 == [db EXCEPT !.now = @ + 1]
        s1 == _anonymize_inactive_users(db0, current,
                                        StepError("anonymize", err, mode))
        s2 == _delete_old_messages(s1.db, current,
                                   StepError("messages", err, mode))
        s3 == _delete_old_actions(s2.db, current,
                                  StepError("actions", err, mode))
        s4 == _delete_old_logs(s3.db, current, StepError("logs", err, mode))
        log_entry == [pseudonym_id |-> Str(NULL),
                      operation_type |-> "full_retention_policy",
                      records_affected |-> s1.ret + s2.ret + s3.ret + s4.ret,
                      operation_date |-> current,
                      reason |-> "Automated data retention policy execution"]
    IN  [db |-> IF DataRetentionLogAccepts(log_entry) /\ ~s4.db.inactive
                THEN Commit([s4.db EXCEPT !.retLogs = @ \cup {log_entry}])
                ELSE Rollback(s4.db),
         ret |-> [anonymized_users |-> s1.ret, deleted_messages |-> s2.ret,
                  deleted_actions |-> s3.ret, deleted_logs |-> s4.ret],
         raised |-> s1.db.inactive
                    \/ StepError("messages", err, mode) = "query"
                    \/ s2.db.inactive]

\* the content row that stays behind when only its metadata row is deleted
ContentOf(r) == [content |-> r.content, iv |-> r.iv, created_at |-> r.timestamp]

\* mutant: the deletion of the actions forgets its filter on user_id
manual_user_data_cleanup_unfiltered(db, user_id, reason, err) ==
    LET found == PseudonymsOfUser(db, user_id)
        pseudonym == IF found = {}
                     THEN [id |-> db.nextUuid, user_id |-> user_id,
                           pseudonym_id |-> Uuid(db.nextUuid)]
                     ELSE FirstPseudonymOfUser(db, user_id)
        messages == {r \in db.rows : r.pseudonym_id = pseudonym.pseudonym_id}
    IN  [db |-> Commit([db EXCEPT
                    !.pseudonyms = @ \cup {pseudonym},
                    !.rows = @ \ messages,
                    !.orphans = @ \cup {ContentOf(r) : r \in messages},
                    !.actions = {},
                    !.now = @ + 1]),
         pseudonym_id |-> pseudonym.pseudonym_id,
         ret |-> [deleted_messages |-> Cardinality(messages),
                  deleted_actions |-> Cardinality(db.actions),
                  deleted_feedbacks |-> 0]]

\* DataRetentionService.manual_user_data_cleanup; err: one of its statements
\* or its commit raises, everything is rolled back and zeros are returned.
\* The pseudonym is looked up in user_pseudonyms whatever the setting
\* enable_pseudonymization says, and created when there is none; the bulk
\* delete removes the rows of dialogue_metadata and leaves those of
\* dialogue_content behind.
manual_user_data_cleanup(db, user_id, reason, err) ==
    LET found == PseudonymsOfUser(db, user_id)
        pseudonym == IF found = {}
                     THEN [id |-> db.nextUuid, user_id |-> user_id,
                           pseudonym_id |-> Uuid(db.nextUuid)]
                     ELSE FirstPseudonymOfUser(db, user_id)
        pseudonym_id == pseudonym.pseudonym_id
        messages == {r \in db.rows : r.pseudonym_id = pseudonym_id}
        user_actions == {a \in db.actions : a.user_id = user_id}
        feedbacks == {f \in db.feedback : f.user_id = user_id}
        cleanup_stats == [deleted_messages |-> Cardinality(messages),
                          deleted_actions |-> Cardinality(user_actions),
                          deleted_feedbacks |-> Cardinality(feedbacks)]
        log_entry == [pseudonym_id |-> pseudonym_id,
                      operation_type |-> "manual_user_cleanup",
                      records_affected |-> Cardinality(messages)
                                           + Cardinality(user_actions)
                                           + Cardinality(feedbacks),
                      operation_date |-> db.now,
                      reason |-> IF reason = "" THEN "Manual user data cleanup"
                                 ELSE reason]
    IN  IF err
        THEN [db |-> Rollback(db), pseudonym_id |-> pseudonym_id,
              ret |-> [deleted_messages |-> 0, deleted_actions |-> 0,
                       deleted_feedbacks |-> 0]]
        ELSE [db |-> Commit([db EXCEPT
                        !.pseudonyms = @ \cup {pseudonym},
                        !.nextUuid = IF found = {} THEN @ + 1 ELSE @,
                        !.rows = @ \ messages,
                        !.orphans = @ \cup {ContentOf(r) : r \in messages},
                        !.actions = @ \ user_actions,
                        !.feedback = @ \ feedbacks,
                        !.retLogs = @ \cup {log_entry},
                        !.now = @ + 1]),
              pseudonym_id |-> pseudonym_id,
              ret |-> cleanup_stats]

\* the methods class DataRetentionService defines
DataRetentionServiceMethods ==
    {"execute_retention_policy", "_anonymize_inactive_users",
     "_delete_old_messages", "_delete_old_actions", "_delete_old_logs",
     "get_data_retention_statistics", "manual_user_data_cleanup"}

\* what handle_data_callbacks tells the user
DataDeletedMessage == "your personal data has been deleted"
DataAnonymizedMessage == "your data has been anonymized"
DataErrorMessage == "an error occurred while processing the request"

\* -------------------------------------------------- payments and credits
\* payment.id: the id YooKassa gave to the payment user u has created
PaymentId(u) == [kind |-> "payment", n |-> u]

\* query(T): the rows of one table of the ledger
Table(db, t) == {r \in db.ledger : r.table = t}
\* query(PaymentHistory).filter_by(payment_id=payment_id)
PaymentRecords(db, payment_id) ==
    {r \in Table(db, "payment_history") : r.payment_id = payment_id}
\* the rows S of the ledger with column c set to v
SetStatus(db, S, v) ==
    [db EXCEPT !.ledger = (@ \ S) \cup {[r EXCEPT !.status = v] : r \in S}]

\* SubscriptionService._deactivate_current_subscription
_deactivate_current_subscription(db, user_id) ==
    LET active == {r \in Table(db, "user_subscriptions") :
                      r.user_id = user_id /\ r.status = "active"}
    IN  IF active = {} THEN db
        ELSE SetStatus(db, {CHOOSE r \in active :
                               \A q \in active : r.start_date <= q.start_date},
                       "cancelled")

\* SubscriptionService._update_user_credits: the credits of the plan are
\* added to the balance of the user
_update_user_credits(db, user_id, plan_id) ==
    LET credits == PRICING_PLANS[plan_id].messages
        user_credits == {r \in Table(db, "user_credits") : r.user_id = user_id}
    IN  IF user_credits # {}
        THEN [db EXCEPT !.ledger = (@ \ user_credits) \cup
                 {[r EXCEPT !.credits_remaining = @ + credits] :
                     r \in user_credits}]
        ELSE [db EXCEPT !.ledger = @ \cup
                 {[table |-> "user_credits", user_id |-> user_id,
                   credits_remaining |-> credits]}]

\* SubscriptionService.activate_subscription; ret: the result is not empty
activate_subscription(db, user_id, plan_id, payment_id) ==
    LET p == ensure_pseudonym(db, user_id, FALSE)
        d == _deactivate_current_subscription(p.db, user_id)
        subscription == [table |-> "user_subscriptions", user_id |-> user_id,
                         plan_id |-> plan_id, status |-> "active",
                         start_date |-> d.now]
        added == [d EXCEPT !.ledger = @ \cup {subscription}, !.now = @ + 1]
        credited == _update_user_credits(added, user_id, plan_id)
        existing_payment == PaymentRecords(credited, payment_id)
        recorded ==
            IF existing_payment = {}
            THEN [credited EXCEPT !.ledger = @ \cup
                     {[table |-> "payment_history", user_id |-> user_id,
                       payment_id |-> payment_id, plan_id |-> plan_id,
                       status |-> "succeeded"]}]
            ELSE SetStatus(credited, existing_payment, "succeeded")
    IN  IF plan_id \notin DOMAIN PRICING_PLANS
        THEN [db |-> p.db, ret |-> FALSE]
        ELSE [db |-> Commit(recorded), ret |-> TRUE]

\* the events of a notification and the statuses of a payment at YooKassa
WebhookEvents ==
    {"payment.succeeded", "payment.canceled", "payment.waiting_for_capture"}
PaymentStatuses == {"pending", "waiting_for_capture", "succeeded", "canceled"}
StatusOfEvent(event) ==
    IF event = "payment.succeeded" THEN "succeeded"
    ELSE IF event = "payment.canceled" THEN "canceled"
    ELSE "waiting_for_capture"

\* PaymentService.process_webhook_notification; the payload carries the
\* event, the id of the payment, its status and, in its metadata (which may
\* be missing: user_id NULL), the user and the plan
process_webhook_notification(db, payload) ==
    LET payment_id == payload.id
        known == PaymentRecords(db, payment_id)
        user_id == IF payload.user_id # NULL THEN payload.user_id
                   ELSE (CHOOSE r \in known : TRUE).user_id
        plan_id == IF payload.user_id # NULL THEN payload.plan_id
                   ELSE (CHOOSE r \in known : TRUE).plan_id
        created ==
            IF known # {} THEN db
            ELSE [db EXCEPT !.ledger = @ \cup
                     {[table |-> "payment_history", user_id |-> user_id,
                       payment_id |-> payment_id, plan_id |-> plan_id,
                       status |-> payload.status]}]
        payment_record == PaymentRecords(created, payment_id)
        activation_result ==
            activate_subscription(
                SetStatus(created, payment_record, "succeeded"),
                user_id, plan_id, payment_id)
    IN  IF payload.user_id = NULL /\ known = {}
        THEN [db |-> db, ret |-> FALSE]
        ELSE IF payload.event = "payment.succeeded"
        THEN [db |-> activation_result.db, ret |-> activation_result.ret]
        ELSE [db |-> Commit(SetStatus(created, payment_record,
                                      StatusOfEvent(payload.event))),
              ret |-> TRUE]

\* PaymentService.check_payment_status; status: what Payment.find_one
\* reports.  The status is written to the record before the record is
\* compared with it.
check_payment_status(db, payment_id, user_id, plan_id, status) ==
    LET found == PaymentRecords(db, payment_id)
        updated == Commit(SetStatus(db, found, status))
        payment_record == PaymentRecords(updated, payment_id)
    IN  IF found = {} THEN db
        ELSE IF /\ status = "succeeded"
                /\ \E r \in payment_record : r.status # "succeeded"
        THEN activate_subscription(updated, user_id, plan_id, payment_id).db
        ELSE updated

\* ------------------------------------------------------------ state machine
SaveErrors == {"none", "enc_user", "enc_bot", "commit"}
CycleErrors == {"none", "anonymize", "messages", "actions", "logs"}
\* what raises in the failing step of a cycle
ErrorModes == {"query", "commit"}
\* how the LLM call of an exchange can fail: the client raises, the response
\* is empty, its first block has no text, or a later statement raises (the
\* text of the first block is no string and len() raises) and the outer
\* except branch takes over
FailureKinds == {"api_error", "empty", "invalid", "unexpected"}
\* str(api_error) of the exceptions the client raises
ApiErrors == {"429 rate limit exceeded", "500 internal server error",
              "connection timed out"}
UnexpectedErrors == {"object of type 'NoneType' has no len()"}
ErrorDetails(kind) ==
    IF kind = "api_error" THEN ApiErrors
    ELSE IF kind = "unexpected" THEN UnexpectedErrors
    ELSE {"none"}

\* the strings get_consultation returns besides the reply of the LLM
TooLongNotice == "please shorten the message"
RateLimitApology == "sorry, request limit exceeded"
ServerErrorApology == "technical problems on the service side"
ApiErrorApology == "an unexpected error occurred while processing the request"
EmptyResponseApology == "could not get a response"
InvalidFormatApology == "received a response of incorrect format"
UnexpectedErrorApology == "sorry, an unexpected error occurred"
FixedApologies ==
    {RateLimitApology, ServerErrorApology, ApiErrorApology,
     EmptyResponseApology, InvalidFormatApology, UnexpectedErrorApology}

\* ClaudeService._handle_api_error: "rate limit" / "internal server error"
\* in error_details.lower()
_handle_api_error(error_details) ==
    IF error_details = "429 rate limit exceeded" THEN RateLimitApology
    ELSE IF error_details = "500 internal server error" THEN ServerErrorApology
    ELSE ApiErrorApology

\* what get_consultation returns when the LLM call has failed
get_consultation_failure_text(kind, error_details) ==
    IF kind = "api_error" THEN _handle_api_error(error_details)
    ELSE IF kind = "empty" THEN EmptyResponseApology
    ELSE IF kind = "invalid" THEN InvalidFormatApology
    ELSE UnexpectedErrorApology
NoGc == [user_id |-> NULL, message |-> "", pseudonym_id |-> Str(NULL),
         context |-> <<>>, limit |-> 0, start_date |-> 0, end_date |-> 0,
         failed |-> FALSE]
\* lastOp: the operation that has just finished; time is the instant its
\* exchange began (failure, reply) or its cutoff (clear, retention), count the
\* number of messages it reports as deleted, ret what it returns to its
\* caller, detail the message of the exception it met (for a retention cycle
\* the step into which the error was injected, err being "messages" whenever
\* the message deletion raised)
NoOp == [op |-> "none", user_id |-> NULL, pseudonym_id |-> Str(NULL),
         time |-> 0, count |-> 0, err |-> "none", ret |-> "none",
         detail |-> "none"]

\* the ledger of a user who has activated the trial plan and has created a
\* payment for a paid plan that YooKassa has not confirmed yet
InitialLedger(u) ==
    {[table |-> "user_credits", user_id |-> u,
      credits_remaining |-> PRICING_PLANS["trial"].messages],
     [table |-> "user_subscriptions", user_id |-> u, plan_id |-> "trial",
      status |-> "active", start_date |-> 0],
     [table |-> "payment_history", user_id |-> u, payment_id |-> PaymentId(u),
      plan_id |-> "basic", status |-> "pending"]}

Init ==
    /\ now = 0
    /\ enablePseudo \in BOOLEAN
    /\ encryptSetting \in BOOLEAN
    /\ masterKey \in BOOLEAN
    /\ maxContext \in {SmallContextLimit, DefaultMaxContextMessages}
    /\ pseudonyms = {}
    /\ nextUuid = 1
    /\ keys = {}
    /\ rows = {}
    /\ actions = {}
    /\ retLogs = {}
    /\ pc = "idle"
    /\ gc = NoGc
    /\ claudeMessages = <<>>
    /\ issued = [u \in Users |-> {}]
    /\ formerUser = {}
    /\ lastOp = NoOp
    /\ nExchanges = 0
    /\ nCycles = 0
    /\ nFaults = 0
    /\ nTicks = 0
    /\ nRequests = 0
    /\ orphans = {}
    /\ feedback = {[user_id |-> u] : u \in Users}
    /\ ledger = UNION {InitialLedger(u) : u \in Users}

\* the handler's database and clock become the state
Apply(db) ==
    /\ pseudonyms' = db.pseudonyms
    /\ nextUuid' = db.nextUuid
    /\ keys' = db.keys
    /\ rows' = db.rows
    /\ actions' = db.actions
    /\ retLogs' = db.retLogs
    /\ now' = db.now
    /\ orphans' = db.orphans
    /\ feedback' = db.feedback
    /\ ledger' = db.ledger

Config == <<enablePseudo, encryptSetting, masterKey, maxContext>>

\* n storage faults are injected in this step, within the budget of the run
Faults(n) == nFaults + n <= MaxFaults /\ nFaults' = nFaults + n
B(x) == IF x THEN 1 ELSE 0

\* mutant: the LLM call is awaited, so that the loop dispatches other
\* handlers while an exchange is in flight
LoopFreeAwaiting == TRUE

\* The event loop is free to run a handler.  handle_message calls
\* get_consultation as a plain synchronous call on the thread of the event
\* loop (no await, no executor), and the application processes updates one
\* at a time, so nothing else is dispatched while an exchange is in flight.
LoopFree == pc = "idle"

\* time passes between two operations
Tick(d) ==
    /\ pc = "idle"
    /\ nTicks < MaxTicks
    /\ nTicks' = nTicks + 1
    /\ now' = now + d
    /\ lastOp' = NoOp
    /\ UNCHANGED <<Config, pseudonyms, nextUuid, keys, rows, actions, retLogs,
                   pc, gc, claudeMessages, issued, formerUser,
                   nExchanges, nCycles, nFaults, nRequests,
                   orphans, feedback, ledger>>

\* used by the two mutants below: a row holding the user's message
UserRow(db, pseudonym_id, user_message) ==
    [pseudonym_id |-> pseudonym_id, role |-> "user",
     content |-> Plain(user_message), message_hash |-> "hash_placeholder",
     iv |-> Bytes("placeholder"), timestamp |-> db.now]

\* mutant: the user's message is committed before the LLM is called
get_consultation_context_eager(db, user_id, user_message, errP, errQ) ==
    LET p == ensure_pseudonym(db, user_id, errP)
        m == get_messages_by_pseudonym(p.db, p.ret, maxContext, errQ)
    IN  [db |-> Commit([m.db EXCEPT
                          !.pending = {UserRow(m.db, p.ret, user_message)},
                          !.now = @ + 1]),
         pseudonym_id |-> p.ret, context |-> Reverse(m.ret)]

\* mutant: the failure branch stores the user's message
get_consultation_failed_saving(db, user_id, pseudonym_id, user_message, errL) ==
    _log_action(Commit([db EXCEPT
                          !.pending = {UserRow(db, pseudonym_id, user_message)},
                          !.now = @ + 1]),
                user_id, "error", errL)

\* ClaudeService.get_consultation, lines 29-62: the pseudonym and the context
\* of the exchange, oldest message first
get_consultation_context(db, user_id, user_message, errP, errQ) ==
    LET p == ensure_pseudonym(db, user_id, errP)
        m == get_messages_by_pseudonym(p.db, p.ret, maxContext, errQ)
    IN  [db |-> m.db, pseudonym_id |-> p.ret, context |-> Reverse(m.ret)]

\* ClaudeService.get_consultation, lines 102-118: the LLM call failed
get_consultation_failed(db, user_id, pseudonym_id, user_message, errL) ==
    _log_action(db, user_id, "error", errL)

\* ClaudeService.get_consultation up to the call of the LLM (lines 22-100)
GetConsultationBegin(user_id, user_message, errP, errQ, errL) ==
    /\ LoopFree
    /\ nExchanges < MaxExchanges
    /\ nExchanges' = nExchanges + 1
    /\ Faults(B(errP) + B(errQ) + B(errL))
    /\ IF TextLen(user_message) > MAX_INPUT_CHARS
       THEN ~errP /\ ~errQ ELSE ~errL
    /\ IF TextLen(user_message) > MAX_INPUT_CHARS
       THEN /\ Apply(_log_action(DB, user_id, "error", errL))
            /\ lastOp' = [NoOp EXCEPT !.op = "too_long", !.user_id = user_id,
                                      !.ret = TooLongNotice]
            /\ UNCHANGED <<pc, gc, claudeMessages, issued>>
       ELSE LET c == get_consultation_context(DB, user_id, user_message,
                                                  errP, errQ)
                context_messages == c.context
            IN  /\ Apply(c.db)
                /\ pc' = "llm"
                /\ gc' = [user_id |-> user_id, message |-> user_message,
                          pseudonym_id |-> c.pseudonym_id,
                          context |-> context_messages,
                          limit |-> maxContext,
                          start_date |-> now - ContextWindowDays,
                          end_date |-> now, failed |-> errQ]
                /\ claudeMessages' =
                       [i \in 1..Len(context_messages) |->
                           [role |-> context_messages[i].role,
                            content |-> context_messages[i].content]]
                       \o <<[role |-> "user", content |-> Plain(user_message)]>>
                /\ issued' = [issued EXCEPT ![user_id] = @ \cup {c.pseudonym_id}]
                /\ lastOp' = NoOp
    /\ UNCHANGED <<Config, formerUser, nCycles, nTicks, nRequests>>

\* ClaudeService.get_consultation when the LLM call raises or its response is
\* empty or malformed (lines 102-118); the three branches differ in the
\* string they return
GetConsultationFailure(kind, error_details, errL) ==
    /\ pc = "llm"
    /\ error_details \in ErrorDetails(kind)
    /\ Faults(B(errL))
    /\ Apply(get_consultation_failed(DB, gc.user_id, gc.pseudonym_id,
                                     gc.message, errL))
    /\ pc' = "idle"
    /\ gc' = NoGc
    /\ claudeMessages' = <<>>
    /\ lastOp' = [NoOp EXCEPT !.op = "failure", !.user_id = gc.user_id,
                              !.pseudonym_id = gc.pseudonym_id,
                              !.time = gc.end_date, !.err = kind,
                              !.ret = get_consultation_failure_text(
                                          kind, error_details),
                              !.detail = error_details]
    /\ UNCHANGED <<Config, issued, formerUser, nExchanges, nCycles, nTicks, nRequests>>

\* ClaudeService.get_consultation when the LLM answers (lines 120-130)
GetConsultationReply(response_text, err, errL) ==
    /\ pc = "llm"
    /\ Faults(B(err # "none") + B(errL))
    /\ LET saved == _save_dialogue_messages(DB, gc.pseudonym_id, gc.message,
                                            response_text, err)
       IN  Apply(_log_action(saved, gc.user_id, "consultation", errL))
    /\ pc' = "idle"
    /\ gc' = NoGc
    /\ claudeMessages' = <<>>
    /\ lastOp' = [NoOp EXCEPT !.op = "reply", !.user_id = gc.user_id,
                              !.pseudonym_id = gc.pseudonym_id,
                              !.time = gc.end_date, !.err = err,
                              !.ret = response_text]
    /\ UNCHANGED <<Config, issued, formerUser, nExchanges, nCycles, nTicks, nRequests>>

\* ClaudeService.clear_conversation (the /new command)
ClearConversation(user_id, errP, errD, errL) ==
    /\ LoopFree
    /\ nCycles < MaxCycles
    /\ nCycles' = nCycles + 1
    /\ Faults(B(errP) + B(errD) + B(errL))
    /\ LET p == ensure_pseudonym(DB, user_id, errP)
           cutoff_date == p.db.now - ContextRetentionDays
           d == delete_messages(p.db, p.ret, cutoff_date, errD)
       IN  /\ Apply(_log_action(d.db, user_id, "conversation_reset", errL))
           /\ issued' = [issued EXCEPT ![user_id] = @ \cup {p.ret}]
           /\ lastOp' = [op |-> "clear", user_id |-> user_id,
                         pseudonym_id |-> p.ret, time |-> cutoff_date,
                         count |-> d.ret,
                         err |-> IF errD THEN "messages" ELSE "none",
                         ret |-> "True", detail |-> "none"]
    /\ UNCHANGED <<Config, pc, gc, claudeMessages, formerUser,
                   nExchanges, nTicks, nRequests>>

\* a run of DataRetentionService.execute_retention_policy
RetentionCycle(err, mode) ==
    /\ LoopFree
    /\ nCycles < MaxCycles
    /\ nCycles' = nCycles + 1
    /\ Faults(B(err # "none"))
    /\ err = "none" => mode = "query"
    /\ LET r == execute_retention_policy(DB, err, mode)
       IN  /\ Apply(r.db)
           /\ formerUser' = formerUser \cup
                  {[pseudonym_id |-> p.pseudonym_id, user_id |-> p.user_id] :
                      p \in {q \in pseudonyms : q \notin r.db.pseudonyms}}
           /\ lastOp' = [op |-> "retention", user_id |-> NULL,
                         pseudonym_id |-> Str(NULL),
                         time |-> now - MessageRetentionDays,
                         count |-> r.ret.deleted_messages,
                         err |-> IF r.raised THEN "messages" ELSE err,
                         ret |-> "none", detail |-> err]
    /\ UNCHANGED <<Config, pc, gc, claudeMessages, issued,
                   nExchanges, nTicks, nRequests>>

\* handle_data_callbacks, action "confirm_delete_data": the full erasure a
\* user asks for.  The handler reports success whatever the cleanup returns.
ManualCleanup(user_id, err) ==
    /\ LoopFree
    /\ nRequests < MaxRequests
    /\ nRequests' = nRequests + 1
    /\ Faults(B(err))
    /\ LET r == manual_user_data_cleanup(
                    DB, user_id, "User request via /deletedata command", err)
       IN  /\ Apply(r.db)
           /\ lastOp' = [op |-> "cleanup", user_id |-> user_id,
                         pseudonym_id |-> r.pseudonym_id, time |-> now,
                         count |-> r.ret.deleted_messages,
                         err |-> IF err THEN "storage" ELSE "none",
                         ret |-> DataDeletedMessage, detail |-> "none"]
    /\ UNCHANGED <<Config, pc, gc, claudeMessages, issued, formerUser,
                   nExchanges, nCycles, nTicks>>

\* handle_data_callbacks, action "anonymize_data": the handler calls
\* retention_service.anonymize_user, a method DataRetentionService does not
\* define; the AttributeError is caught by the handler's except branch, which
\* answers with the error message.  Nothing is read from or written to the
\* database.
AnonymizeRequest(user_id) ==
    /\ LoopFree
    /\ nRequests < MaxRequests
    /\ nRequests' = nRequests + 1
    /\ "anonymize_user" \notin DataRetentionServiceMethods
    /\ lastOp' = [op |-> "anonymize", user_id |-> user_id,
                  pseudonym_id |-> Str(NULL), time |-> now, count |-> 0,
                  err |-> "AttributeError", ret |-> DataErrorMessage,
                  detail |-> "none"]
    /\ UNCHANGED <<Config, now, pseudonyms, nextUuid, keys, rows, actions,
                   retLogs, pc, gc, claudeMessages, issued, formerUser,
                   nExchanges, nFaults, nCycles, nTicks,
                   orphans, feedback, ledger>>

\* a stored token is damaged at rest
Corrupt(r) ==
    /\ pc = "idle"
    /\ Faults(1)
    /\ r \in rows
    /\ r.content.enc
    /\ ~r.content.bad
    /\ rows' = (rows \ {r}) \cup {[r EXCEPT !.content.bad = TRUE]}
    /\ lastOp' = NoOp
    /\ UNCHANGED <<Config, now, pseudonyms, nextUuid, keys, actions, retLogs,
                   pc, gc, claudeMessages, issued, formerUser,
                   nExchanges, nCycles, nTicks, nRequests, orphans, feedback, ledger>>

\* the process is restarted with the other value of ENCRYPT_MESSAGES
Reconfigure ==
    /\ pc = "idle"
    /\ encryptSetting' = ~encryptSetting
    /\ lastOp' = NoOp
    /\ UNCHANGED <<now, enablePseudo, masterKey, maxContext, pseudonyms,
                   nextUuid, keys, rows, actions, retLogs, pc, gc,
                   claudeMessages, issued, formerUser, nExchanges, nCycles,
                   nFaults, nTicks, nRequests, orphans, feedback, ledger>>

\* the scheduler fires the retention cycle ScheduleInterval after the last
\* one
ScheduledCycle ==
    /\ LoopFree
    /\ nCycles < MaxScheduled
    /\ nCycles' = nCycles + 1
    /\ LET r == execute_retention_policy(
                    [DB EXCEPT !.now = @ + ScheduleInterval - 1],
                    "none", "query")
       IN  /\ Apply(r.db)
           /\ formerUser' = formerUser \cup
                  {[pseudonym_id |-> p.pseudonym_id, user_id |-> p.user_id] :
                      p \in {q \in pseudonyms : q \notin r.db.pseudonyms}}
           /\ lastOp' = [op |-> "retention", user_id |-> NULL,
                         pseudonym_id |-> Str(NULL),
                         time |-> r.db.now - 1 - MessageRetentionDays,
                         count |-> r.ret.deleted_messages, err |-> "none",
                         ret |-> "none", detail |-> "none"]
    /\ UNCHANGED <<Config, pc, gc, claudeMessages, issued,
                   nExchanges, nFaults, nTicks, nRequests>>

\* the activations of subscriptions so far
Activations ==
    Cardinality({r \in ledger : r.table = "user_subscriptions"}) - MaxUsers

\* YookassaWebhookHandler.handle_webhook: YooKassa delivers a notification
\* about the payment of user u, with or without metadata
WebhookNotification(u, event, metadata) ==
    /\ pc = "idle"
    /\ Activations < MaxDeliveries
    /\ LET payload == [event |-> event, id |-> PaymentId(u),
                       status |-> StatusOfEvent(event),
                       user_id |-> IF metadata THEN u ELSE NULL,
                       plan_id |-> IF metadata THEN "basic" ELSE "none"]
           r == process_webhook_notification(DB, payload)
       IN  /\ Apply(r.db)
           /\ lastOp' = [NoOp EXCEPT !.op = "webhook", !.user_id = u,
                                     !.ret = IF r.ret THEN "True" ELSE "False",
                                     !.detail = event]
    /\ UNCHANGED <<Config, pc, gc, claudeMessages, issued, formerUser,
                   nExchanges, nCycles, nFaults, nTicks, nRequests>>

\* handle_check_payment: user u presses "check the payment"
CheckPaymentStatus(u, status) ==
    /\ pc = "idle"
    /\ Activations < MaxDeliveries
    /\ Apply(check_payment_status(DB, PaymentId(u), u, "basic", status))
    /\ lastOp' = [NoOp EXCEPT !.op = "status", !.user_id = u,
                              !.ret = status]
    /\ UNCHANGED <<Config, pc, gc, claudeMessages, issued, formerUser,
                   nExchanges, nCycles, nFaults, nTicks, nRequests>>

Next ==
    \/ \E d \in TickSteps : Tick(d)
    \/ \E u \in Users, t \in UserTexts, errP \in BOOLEAN, errQ \in BOOLEAN,
          errL \in BOOLEAN : GetConsultationBegin(u, t, errP, errQ, errL)
    \/ \E k \in FailureKinds, e \in ApiErrors \cup UnexpectedErrors \cup {"none"},
          errL \in BOOLEAN : GetConsultationFailure(k, e, errL)
    \/ \E t \in ReplyTexts, err \in SaveErrors, errL \in BOOLEAN :
          GetConsultationReply(t, err, errL)
    \/ \E u \in Users, errP \in BOOLEAN, errD \in BOOLEAN, errL \in BOOLEAN :
          ClearConversation(u, errP, errD, errL)
    \/ \E err \in CycleErrors, mode \in ErrorModes : RetentionCycle(err, mode)
    \/ \E r \in rows : Corrupt(r)

Spec == Init /\ [][Next]_vars

\* The data requests of users (/deletedata) among exchanges and retention
\* cycles.  The storage faults of this specification are those of the
\* pseudonym lookup of an exchange, of the message deletion of a cycle and
\* of the cleanup itself; its exchanges carry the text 'Hello' and fail,
\* when they fail, with an empty response.
NextRequests ==
    \/ \E d \in TickSteps : Tick(d)
    \/ \E u \in Users, errP \in BOOLEAN :
          GetConsultationBegin(u, "Hello", errP, FALSE, FALSE)
    \/ GetConsultationFailure("empty", "none", FALSE)
    \/ \E t \in ReplyTexts : GetConsultationReply(t, "none", FALSE)
    \/ \E err \in {"none", "messages"} : RetentionCycle(err, "query")
    \/ \E u \in Users, err \in BOOLEAN : ManualCleanup(u, err)
    \/ \E u \in Users : AnonymizeRequest(u)

SpecRequests == Init /\ [][NextRequests]_vars

\* Exchanges across restarts with another encryption setting, with replies
\* of any length, and with an outage of the storage while an exchange is
\* saved.
NextDialogue ==
    \/ \E u \in Users : GetConsultationBegin(u, "Hello", FALSE, FALSE, FALSE)
    \/ \E t \in ReplyTexts \cup {LongReply}, err \in {"none", "enc_both"} :
          GetConsultationReply(t, err, FALSE)
    \/ Reconfigure

SpecDialogue == Init /\ [][NextDialogue]_vars

\* the scheduler fires: the step of ScheduledCycle, seen on its counter
CycleFires == pc = "idle" /\ nCycles < MaxScheduled /\ nCycles' = nCycles + 1
\* the LLM call of the exchange in flight returns: the step of
\* GetConsultationReply, seen on the position of the exchange
CallReturns == pc = "llm" /\ pc' = "idle"

\* The retention cycle on its daily schedule; the users are active before the
\* first cycle and not after it.  The scheduler keeps firing and the LLM call
\* of an exchange returns.
NextSchedule ==
    \/ \E u \in Users :
          nCycles = 0 /\ GetConsultationBegin(u, "Hello", FALSE, FALSE, FALSE)
    \/ \E t \in ReplyTexts : GetConsultationReply(t, "none", FALSE)
    \/ ScheduledCycle

SpecSchedule ==
    /\ Init
    /\ [][NextSchedule]_vars
    /\ WF_nCycles(CycleFires)
    /\ WF_pc(CallReturns)

\* The notifications of YooKassa and the status checks of the users.
NextPayments ==
    \/ \E u \in Users, event \in WebhookEvents, metadata \in BOOLEAN :
          WebhookNotification(u, event, metadata)
    \/ \E u \in Users, status \in PaymentStatuses : CheckPaymentStatus(u, status)

SpecPayments == Init /\ [][NextPayments]_vars

\* ================================================================== claims
\* rows that a step adds (a row is identified by its timestamp)
NewRows == {r \in rows' : \A q \in rows : q.timestamp # r.timestamp}
RowsOf(pseudonym_id) == {r \in rows : r.pseudonym_id = pseudonym_id}
Linked(pseudonym_id) ==
    \E p \in pseudonyms : p.pseudonym_id = pseudonym_id /\ p.user_id # NULL
Unlinked(u) == \E f \in formerUser : f.user_id = u
Min(a, b) == IF a < b THEN a ELSE b
\* every message a query over the whole of time returns for an id
AllMessages(pseudonym_id) ==
    get_messages_between(DB, pseudonym_id, 0, now, Cardinality(rows), FALSE).ret
\* text P encrypted for identifier X and decrypted again for X
RoundTrip(P, X) ==
    LET e == encrypt_message(DB, P, X, "none")
    IN  decrypt_message(e.db, e.ret, X, FALSE).ret
\* the stored rows behind the context of the exchange in flight
WindowRows ==
    {r \in RowsOf(gc.pseudonym_id) :
        \E i \in 1..Len(gc.context) : gc.context[i].timestamp = r.timestamp}
\* the rows a deletion addresses: all of them (retention) or one id (clear)
InScope(r) == lastOp'.op = "retention" \/ r.pseudonym_id = lastOp'.pseudonym_id
\* the context get_consultation would build for an id now
ContextWindow(pseudonym_id) ==
    Reverse(get_messages_by_pseudonym(DB, pseudonym_id,
                                      DefaultMaxContextMessages, FALSE).ret)
\* the stored rows of the id within the period the fetch asked for
InPeriod ==
    {r \in RowsOf(gc.pseudonym_id) :
        gc.start_date <= r.timestamp /\ r.timestamp <= gc.end_date}

\* C1: the message list passed to the LLM holds the context messages in
\* ascending timestamp order, each a stored message of the pseudonym, followed
\* by the current user message as the last element.
C1_ContextAscending ==
    pc = "llm" =>
        /\ Len(claudeMessages) = Len(gc.context) + 1
        /\ claudeMessages[Len(claudeMessages)] =
               [role |-> "user", content |-> Plain(gc.message)]
        /\ \A i \in 1..Len(gc.context) :
               /\ claudeMessages[i] = [role |-> gc.context[i].role,
                                       content |-> gc.context[i].content]
               /\ \E r \in RowsOf(gc.pseudonym_id) :
                      /\ r.timestamp = gc.context[i].timestamp
                      /\ r.role = gc.context[i].role
               /\ \A j \in 1..Len(gc.context) :
                      i < j => gc.context[i].timestamp < gc.context[j].timestamp

C1_Witness == pc = "llm" /\ Len(gc.context) >= 2

C4_Stable ==
    \A u \in Users : ~Unlinked(u) => Cardinality(issued[u]) <= 1

\* C5: once the pseudonym of u has been unlinked, ensure_pseudonym(u) returns
\* an id different from the old one, every message stored under the old id is
\* returned by a query on the old id, and the id that a lookup from u yields
\* has none of them.
C5_UnlinkIrreversible ==
    \A f \in formerUser :
        /\ \A err \in BOOLEAN :
               LET e == ensure_pseudonym(DB, f.user_id, err)
               IN  /\ e.ret # f.pseudonym_id
                   /\ \A r \in RowsOf(f.pseudonym_id) :
                          r \notin MessagesQuery(e.db, e.ret, 0, now)
        /\ \A x \in issued[f.user_id] \ {f.pseudonym_id} :
               RowsOf(x) \cap RowsOf(f.pseudonym_id) = {}
        /\ \A r \in RowsOf(f.pseudonym_id) :
               \E i \in 1..Len(AllMessages(f.pseudonym_id)) :
                   /\ AllMessages(f.pseudonym_id)[i].timestamp = r.timestamp
                   /\ AllMessages(f.pseudonym_id)[i].role = r.role
                   /\ AllMessages(f.pseudonym_id)[i].message_hash = r.message_hash

C5_Witness ==
    \E f \in formerUser :
        /\ RowsOf(f.pseudonym_id) # {}
        /\ \E x \in issued[f.user_id] : x # f.pseudonym_id /\ x.kind = "uuid"

\* C6: with encryption enabled, for every text P and every identifier X that
\* ensure_pseudonym has returned, decrypt_message(encrypt_message(P, X), X) = P.
C6_RoundTrip ==
    EncryptMessages =>
        \A u \in Users : \A X \in issued[u] : \A P \in UserTexts \cup ReplyTexts :
            RoundTrip(P, X) = Plain(P)

\* C7: when exactly one stored message of the fetched window has a damaged
\* ciphertext, the fetch returns the other messages with their plaintext and
\* the damaged one is left out or replaced by a placeholder (it never comes
\* back as the damaged ciphertext itself).
C7_DamagedIsolated ==
    (/\ pc = "llm"
     /\ EncryptMessages
     /\ Linked(gc.pseudonym_id)
     /\ Cardinality({r \in WindowRows : r.content.bad}) = 1)
    => /\ \A r \in WindowRows : \A i \in 1..Len(gc.context) :
              (~r.content.bad /\ gc.context[i].timestamp = r.timestamp)
                  => gc.context[i].content = Plain(r.content.text)
       /\ \A i \in 1..Len(gc.context) : ~gc.context[i].content.bad

\* C8: a deletion by cutoff (the retention step and clear_conversation)
\* retains every message whose timestamp is at or after the cutoff and every
\* message out of its scope, and, when its database access does not fail,
\* deletes every message of its scope whose timestamp is before the cutoff.
C8_CutoffBoundary ==
    [][(pc = "idle" /\ lastOp'.op \in {"retention", "clear"}) =>
          /\ rows' \subseteq rows
          /\ \A r \in rows :
                 (r.timestamp >= lastOp'.time \/ ~InScope(r)) => r \in rows'
          /\ lastOp'.err # "messages" =>
                 \A r \in rows :
                     (r.timestamp < lastOp'.time /\ InScope(r)) => r \notin rows']_vars

C8_Witness ==
    /\ lastOp.op = "retention"
    /\ lastOp.count > 0
    /\ \E r \in rows : r.timestamp = lastOp.time

\* C9: a successful exchange 'Hello' / 'Hi there' on an empty history stores
\* exactly two records for the pseudonym, and the context window is
\* [user 'Hello', assistant 'Hi there'].
C9_TwoRecords ==
    (nExchanges = 1 /\ lastOp.op = "reply" /\ lastOp.err = "none") =>
        /\ Cardinality(RowsOf(lastOp.pseudonym_id)) = 2
        /\ [i \in 1..Len(ContextWindow(lastOp.pseudonym_id)) |->
               ContextWindow(lastOp.pseudonym_id)[i].role] = <<"user", "assistant">>

\* C10 as stated: the window fetched with limit N holds exactly the
\* min(N, total) most recent stored messages of the pseudonym, whatever
\* their age.
C10_Original ==
    (pc = "llm" /\ ~gc.failed) =>
        Len(gc.context) = Min(gc.limit, Cardinality(RowsOf(gc.pseudonym_id)))

\* C10 amended: the window fetched with limit N holds exactly the min(N, k)
\* most recent of the k stored messages of the pseudonym whose timestamp lies
\* within the 30 days up to the fetch (both ends included); it is empty when
\* the query fails.
C10_Amended ==
    pc = "llm" =>
        /\ Len(gc.context) =
               IF gc.failed THEN 0 ELSE Min(gc.limit, Cardinality(InPeriod))
        /\ WindowRows \subseteq InPeriod
        /\ Cardinality(WindowRows) = Len(gc.context)
        /\ \A r \in InPeriod \ WindowRows :
               \A w \in WindowRows : r.timestamp < w.timestamp

C10_Witness ==
    /\ pc = "llm"
    /\ Len(gc.context) >= 1
    /\ RowsOf(gc.pseudonym_id) \ InPeriod # {}

\* ---------------------------------------------------------- claims C11..C20
\* a value from which the symmetric key or a part of it can be read back
KeyMaterial(v) == v.kind \in {"key", "b64", "part"}
\* the stored rows of the conversations of user u: those under an identifier
\* that ensure_pseudonym has returned for u
RowsOfUser(u) == {r \in rows : r.pseudonym_id \in issued[u]}

\* C11: when the decryption of a stored message fails, decrypt_message yields
\* an outcome that can be told from a plaintext: what it returns for a stored
\* token is never a ciphertext, and no message handed to the LLM as context
\* carries a ciphertext as its content.
C11_DecryptErrorDistinct ==
    EncryptMessages =>
        /\ \A r \in rows :
               ~decrypt_message(DB, r.content, r.pseudonym_id, FALSE).ret.enc
        /\ pc = "llm" =>
               \A i \in 1..Len(claudeMessages) : ~claudeMessages[i].content.enc

\* C12: with pseudonymization enabled, no dialogue row is ever stored with the
\* raw user id as its identifier.
C12_NoRawUserId ==
    enablePseudo => \A r \in rows : r.pseudonym_id.kind # "uid"

\* C13: no persisted column (key_hash of a key record, iv of a content row)
\* holds the derived key, a reversible encoding of it or a part of it.
C13_NoKeyPersisted ==
    /\ \A k \in keys : ~KeyMaterial(k.key_hash)
    /\ \A r \in rows : ~KeyMaterial(r.iv)
    /\ \A c \in orphans : ~KeyMaterial(c.iv)

\* C14: when the LLM call or a step of get_consultation has failed, the
\* function returns one of its fixed apology strings, and the text it returns
\* is not the message of the exception.
C14_ApologyOnFailure ==
    (lastOp.op \in {"failure", "reply"} /\ lastOp.err # "none") =>
        /\ lastOp.ret \in FixedApologies
        /\ lastOp.ret # lastOp.detail

\* C15: no two get_consultation invocations overlap: from the context read of
\* an invocation until it has finished, the only step taken is the one that
\* finishes this invocation (its failure or its reply), and every dialogue
\* row added meanwhile is a row of its own pseudonym.
C15_NoOverlap ==
    [][pc = "llm" =>
          /\ pc' = "idle"
          /\ lastOp'.op \in {"failure", "reply"}
          /\ lastOp'.user_id = gc.user_id
          /\ lastOp'.pseudonym_id = gc.pseudonym_id
          /\ \A n \in NewRows : n.pseudonym_id = gc.pseudonym_id]_vars

C15_Witness ==
    /\ pc = "llm"
    /\ nExchanges = 2
    /\ \E r \in RowsOf(gc.pseudonym_id) : r.role = "assistant"

\* C16: after manual_user_data_cleanup(u) has returned without a storage
\* error, no dialogue message of u's conversations remains, and no action and
\* no feedback of u.
C16_FullErasure ==
    (lastOp.op = "cleanup" /\ lastOp.err = "none") =>
        /\ RowsOfUser(lastOp.user_id) = {}
        /\ \A a \in actions : a.user_id # lastOp.user_id
        /\ \A f \in feedback : f.user_id # lastOp.user_id

\* C17: manual_user_data_cleanup(u) leaves every row of the credit,
\* subscription and payment tables as it was, and the dialogue rows, actions
\* and feedback of every other user as they were.
C17_CleanupFrame ==
    [][(nRequests' = nRequests + 1 /\ lastOp'.op = "cleanup") =>
          /\ ledger' = ledger
          /\ \A v \in Users \ {lastOp'.user_id} :
                 /\ {r \in rows' : r.pseudonym_id \in issued[v]} = RowsOfUser(v)
                 /\ {a \in actions' : a.user_id = v}
                        = {a \in actions : a.user_id = v}
                 /\ {f \in feedback' : f.user_id = v}
                        = {f \in feedback : f.user_id = v}]_vars

C17_Witness ==
    /\ lastOp.op = "cleanup"
    /\ lastOp.count > 0
    /\ \E a \in ledger : a.user_id = lastOp.user_id
    /\ \E v \in Users \ {lastOp.user_id} :
           /\ RowsOfUser(v) # {}
           /\ \E a \in actions : a.user_id = v

\* C18: a user-requested anonymization reports success and leaves no
\* pseudonym row linked to the user.
C18_AnonymizeUnlinks ==
    lastOp.op = "anonymize" =>
        /\ lastOp.ret = DataAnonymizedMessage
        /\ \A p \in pseudonyms : p.user_id # lastOp.user_id

\* C19: every user-requested erasure and every user-requested anonymization
\* has written one retention log row with operation_type 'user_request' and
\* a non-empty reason.
C19_UserRequestLogged ==
    lastOp.op \in {"cleanup", "anonymize"} =>
        \E l \in retLogs :
            /\ l.operation_type = "user_request"
            /\ l.reason # ""
            /\ l.operation_date >= lastOp.time

\* C20: when encryption is configured and the master secret is absent, no
\* message is stored as plaintext.
C20_NoSilentPlaintext ==
    (encryptSetting /\ ~masterKey) => \A r \in rows : r.content.enc

\* ---------------------------------------------------------- claims C21..C30
\* DIALOGUE_SETTINGS['max_tokens_per_context'] as ClaudeService.__init__
\* reads it, here a budget that one long reply and one greeting exceed
max_tokens_per_context == SmallTokenBudget
\* the number of tokens of a text: a long reply has as many as the request
\* allows, a greeting has two
Tokens(t) == IF t = LongReply THEN MAX_OUTPUT_TOKENS ELSE 2
RECURSIVE ContextTokens(_)
\* the tokens of a list of messages
ContextTokens(messages) ==
    IF messages = <<>> THEN 0
    ELSE Tokens(Head(messages).content.text) + ContextTokens(Tail(messages))
\* rows of the pseudonym of r that lie strictly between u and r
Between(u, r) ==
    {a \in RowsOf(r.pseudonym_id) :
        u.timestamp < a.timestamp /\ a.timestamp < r.timestamp}
\* the rows of table t of the ledger that belong to user u
LedgerOf(t, u) == {r \in ledger : r.table = t /\ r.user_id = u}
\* user u has a pseudonym row that is linked to them
HasLinkedPseudonym(u) == \E p \in pseudonyms : p.user_id = u
\* the step is a run of the retention cycle
CycleStep == pc = "idle" /\ lastOp'.op = "retention"
\* what the four steps of the cycle of this step have changed
StepCounts ==
    Cardinality({q \in pseudonyms : q \notin pseudonyms'})
    + Cardinality(rows \ rows')
    + Cardinality(actions \ actions')
    + Cardinality(retLogs \ retLogs')

\* C21: the context passed to the LLM never exceeds the configured token
\* budget: its messages together have no more tokens than
\* max_tokens_per_context.
C21_TokenBudget ==
    pc = "llm" => ContextTokens(gc.context) <= max_tokens_per_context

\* C22: after the pseudonym of u has been unlinked, the key derived for the
\* pseudonym that ensure_pseudonym(u) issues next differs from the key under
\* which the messages of the old pseudonym were encrypted.
C22_NewKeyLineage ==
    EncryptMessages =>
        \A f \in formerUser :
            LET e == ensure_pseudonym(DB, f.user_id, FALSE)
                k == _derive_encryption_key(e.db, e.ret, FALSE)
            IN  \A r \in RowsOf(f.pseudonym_id) :
                    r.content.enc => k.salt # r.content.salt

\* C23: whatever the value of the encrypt_messages switch at the time of a
\* write and at the time of a read, every message in the fetched context of a
\* linked pseudonym comes back as its plaintext.
C23_ToggleReadBack ==
    (pc = "llm" /\ Linked(gc.pseudonym_id)) =>
        \A i \in 1..Len(gc.context) :
            gc.context[i].content = Plain(gc.context[i].content.text)

\* C24: every stored message with role assistant is preceded, in the
\* timestamp order of its pseudonym, by a stored user message of the same
\* exchange (one with no other assistant message in between).
C24_AssistantAfterUser ==
    \A r \in rows :
        r.role = "assistant" =>
            \E u \in RowsOf(r.pseudonym_id) :
                /\ u.role = "user"
                /\ u.timestamp < r.timestamp
                /\ \A a \in Between(u, r) : a.role # "assistant"

\* C25: dialogue_metadata and dialogue_content are in one-to-one
\* correspondence: no content row is left without the metadata row that
\* refers to it.
C25_OneToOne == orphans = {}

\* C26: every run of execute_retention_policy writes exactly one retention
\* log row, with operation_type 'cleanup' and records_affected equal to the
\* sum of the counts of its four steps.
C26_OneCleanupLog ==
    [][CycleStep =>
          /\ Cardinality(retLogs' \ retLogs) = 1
          /\ \A l \in retLogs' \ retLogs :
                 /\ l.operation_type = "cleanup"
                 /\ l.records_affected = StepCounts]_vars

\* C27: when a step of the retention cycle fails, nothing of that step is
\* committed and every later step of the cycle still applies its deletions:
\* after the cycle no message (when the anonymization failed) and no action
\* (when the anonymization or the message deletion failed) older than the
\* cutoff is left.
C27_StepFailureIsolated ==
    [][CycleStep =>
          /\ lastOp'.detail = "anonymize" =>
                 /\ pseudonyms' = pseudonyms
                 /\ \A r \in rows' : r.timestamp >= lastOp'.time
          /\ lastOp'.detail = "messages" => rows' = rows
          /\ lastOp'.detail \in {"anonymize", "messages"} =>
                 \A a \in actions' : a.created_at >= lastOp'.time
          /\ lastOp'.detail = "actions" => actions' = actions]_vars

\* C28: with the retention cycle on its schedule, every user who has a linked
\* pseudonym and stops acting is eventually unlinked from it.
C28_InactiveUnlinked ==
    \A u \in Users : HasLinkedPseudonym(u) ~> ~HasLinkedPseudonym(u)

\* C29: after clear_conversation(u) has returned True, the next
\* get_consultation of u sends the LLM no stored message: its context is
\* empty.
C29_ResetEmptiesContext ==
    [][(/\ lastOp.op = "clear"
        /\ lastOp.ret = "True"
        /\ pc' = "llm"
        /\ gc'.user_id = lastOp.user_id) => gc'.context = <<>>]_vars

\* C30: one payment id adds the credits of its plan to the balance of the
\* user at most once: the balance never exceeds the trial credits plus the
\* credits of the plan for each payment of the user.
C30_CreditedOnce ==
    \A u \in Users : \A c \in LedgerOf("user_credits", u) :
        c.credits_remaining <=
            PRICING_PLANS["trial"].messages
            + PRICING_PLANS["basic"].messages
              * Cardinality(LedgerOf("payment_history", u))

====
